---------------------------- MODULE Spec2Model ----------------------------
(***************************************************************************)
(* A model of python/cuml/ts/arima.py (batched ARIMA): the parameter codec *)
(* (pack / unpack), the optimizer driver (fit) with the process-wide       *)
(* floating-point error policy (np.seterr), the likelihood evaluator       *)
(* (run_kalman and its callers), the finite-difference gradient (ll_gf),   *)
(* the forecaster (fc_single / forecast), differencing and the order grid  *)
(* search.  Numbers are integers; NaN and infinity are two extra values.   *)
(* The Kalman kernel, the optimizer and the statsmodels transforms are     *)
(* external: their results are nondeterministic choices.                   *)
(***************************************************************************)
EXTENDS Integers, Sequences, FiniteSets, TLC

VARIABLES
    c_pc,                    \* codec: the call in progress and how it ended
    c_p, c_q, c_nb,          \* codec: the orders and the batch size
    c_mu, c_ar, c_ma,        \* codec: the containers given to pack
    c_x,                     \* codec: the linearized vector
    c_out                    \* codec: what unpack returned

codecVars == <<c_pc, c_p, c_q, c_nb, c_mu, c_ar, c_ma, c_x, c_out>>

VARIABLES
    f_pc,          \* fit: the statement about to run, or how the call ended
    f_err,         \* fit: the exception that ended the call ("none" if none)
    f_path,        \* fit: "raw" (mu0 is a scalar) or "array" (mu0 is an ndarray)
    f_p, f_q, f_nb,
    f_mu0,         \* fit: the class of each entry of mu0
    f_x0,          \* fit: the class of each entry of x0, once built
    f_seterr,      \* the policy np.seterr last set: "raise" or "warn"
    f_optInvoked,  \* batched_fmin_lbfgs_b has been called
    f_calls,       \* calls of f and gf the optimizer has made
    f_caller,      \* "f" or "gf": who is running ll_f
    f_gi,          \* ll_gf: the loop index i
    f_sign,        \* ll_gf: "+" for the x+fdph evaluation, "-" for x-fdph
    f_llPolicy,    \* policies in force while a likelihood evaluation ran
    f_transPolicy, \* policies in force while the statsmodels transforms ran
    f_diffPolicy   \* policies in force while a central difference was formed

fitVars == <<f_pc, f_err, f_path, f_p, f_q, f_nb, f_mu0, f_x0, f_seterr,
             f_optInvoked, f_calls, f_caller, f_gi, f_sign,
             f_llPolicy, f_transPolicy, f_diffPolicy>>

VARIABLES
    k_pc,       \* likelihood evaluator: "call", "kalman_done", "returned", "raised"
    k_op,       \* the operation called on the model
    k_order,    \* model.order: one (p, d, q) per batch member
    k_kfilter,  \* calls of batched_kfilter made
    k_err,      \* the exception that ended the operation ("none" if none)
    k_out       \* what the operation returned ("none" before it returns)

kalVars == <<k_pc, k_op, k_order, k_kfilter, k_err, k_out>>

VARIABLES
    g_pc,       \* grid_search: "loop", "score", "returned", "raised"
    g_method,   \* the method argument
    g_max_p, g_max_q, g_d,
    g_p, g_q,   \* the loop variables
    g_fits,     \* calls of fit that returned
    g_b_model,  \* the model fit returned for the current order
    g_best_ic,  \* best_ic, one entry per batch member
    g_best,     \* best_model: order, mu, ar_params, ma_params per member
    g_hist,     \* the orders scored so far, each with its members' scores
    g_err       \* the exception that ended the search ("none" if none)

gridVars == <<g_pc, g_method, g_max_p, g_max_q, g_d, g_p, g_q, g_fits,
              g_b_model, g_best_ic, g_best, g_hist, g_err>>

VARIABLES
    d_pc,      \* differencing: "start", "differenced", "undifferenced"
    d_nb,      \* number of batch members (columns of y)
    d_y,       \* the batched series: one row per time step
    d_mu,      \* the centering offset of each member
    d_diff,    \* what diffAndCenter returned
    d_member,  \* the member whose column is undifferenced
    d_skip,    \* leading differences the caller dropped before undifference
    d_out      \* what undifference returned

diffVars == <<d_pc, d_nb, d_y, d_mu, d_diff, d_member, d_skip, d_out>>

VARIABLES
    r_pc,         \* forecast: "call", "loop", "fc_done", "returned"
    r_p, r_q, r_d,
    r_num_steps,
    r_y,          \* the member's observed series
    r_vs,         \* the member's innovations, from run_kalman
    r_mu, r_ar, r_ma,
    r_ybuf,       \* fc_single: y_
    r_vsbuf,      \* fc_single: vs_
    r_fcast,      \* fc_single: fcast, the entries written so far
    r_i,          \* fc_single: the loop index
    r_out         \* forecast: the member's column of y_fc_b

fcVars == <<r_pc, r_p, r_q, r_d, r_num_steps, r_y, r_vs, r_mu, r_ar, r_ma,
            r_ybuf, r_vsbuf, r_fcast, r_i, r_out>>

VARIABLES
    q_pc,       \* ll_gf: "call", "loop", "returned", "raised"
    q_nb,       \* num_batches
    q_np,       \* num_parameters
    q_h,        \* the step h
    q_x,        \* the point x
    q_sched,    \* the order in which the parameter indices are processed
    q_k,        \* how many indices have been processed
    q_i,        \* the index processed last
    q_fd,       \* fd, the one-member perturbation
    q_fdph,     \* fdph, the perturbation tiled over the batch, as last built
    q_grad,     \* grad
    q_writes    \* how many times each slot of grad has been written

gradVars == <<q_pc, q_nb, q_np, q_h, q_x, q_sched, q_k, q_i, q_fd, q_fdph,
              q_grad, q_writes>>

vars == <<codecVars, fitVars, kalVars, gridVars, diffVars, fcVars, gradVars>>

\* What the actions of one component leave alone.
notCodec == <<fitVars, kalVars, gridVars, diffVars, fcVars, gradVars>>
notFit == <<codecVars, kalVars, gridVars, diffVars, fcVars, gradVars>>
notKal == <<codecVars, fitVars, gridVars, diffVars, fcVars, gradVars>>
notGrid == <<codecVars, fitVars, kalVars, diffVars, fcVars, gradVars>>
notDiff == <<codecVars, fitVars, kalVars, gridVars, fcVars, gradVars>>
notFc == <<codecVars, fitVars, kalVars, gridVars, diffVars, gradVars>>
notGrad == <<codecVars, fitVars, kalVars, gridVars, diffVars, fcVars>>

(***************************************************************************)
(* Shared bounds and helpers.                                              *)
(***************************************************************************)
\* The largest AR or MA order, and the largest batch.
MaxOrder == 2
MaxBatch == 2

Vals == {0, 1}

\* The coefficient vectors of length n that inputs are drawn from: rising,
\* falling and constant, so that a swap or a shift of entries shows.
VecsOf(n) ==
    { [k \in 1..n |-> k], [k \in 1..n |-> n + 1 - k], [k \in 1..n |-> 0] }

Min(a, b) == IF a < b THEN a ELSE b

\* Python's x[a:b] on a sequence (0-based, clipped to the length, never fails).
PySlice(s, a, b) == SubSeq(s, a + 1, Min(b, Len(s)))

\* The outcome of a call: a value, or the exception it raised.
Ok(v) == [err |-> "none", val |-> v]
Raised(e) == [err |-> e, val |-> <<>>]

(***************************************************************************)
(* Parameter codec.                                                        *)
(***************************************************************************)

\* UnpackMember reading 0 for the mean of an empty slice instead of failing.
UnpackMemberNoFail(p, q, x, i) ==
    LET num_parameters == 1 + p + q
        xi == PySlice(x, i * num_parameters, (i + 1) * num_parameters)
    IN  Ok([mu |-> IF Len(xi) = 0 THEN 0 ELSE xi[1],
            ar |-> PySlice(xi, 1, p + 1),
            ma |-> PySlice(xi, p + 1, Len(xi))])

\* One iteration of unpack's loop on member i (0-based): the member's slice
\* of x, then mu[i] = xi[0] (IndexError on an empty slice), xi[1:p+1], xi[p+1:].
UnpackMember(p, q, x, i) ==
    LET num_parameters == 1 + p + q
        xi == PySlice(x, i * num_parameters, (i + 1) * num_parameters)
    IN  IF Len(xi) = 0 THEN Raised("IndexError")
        ELSE Ok([mu |-> xi[1],
                 ar |-> PySlice(xi, 1, p + 1),
                 ma |-> PySlice(xi, p + 1, Len(xi))])

RECURSIVE UnpackLoop(_, _, _, _, _, _)
UnpackLoop(p, q, nb, x, i, acc) ==
    IF i = nb THEN Ok(acc)
    ELSE LET m == UnpackMember(p, q, x, i)
         IN  IF m.err # "none" THEN Raised(m.err)
             ELSE UnpackLoop(p, q, nb, x, i + 1,
                      [mu |-> Append(acc.mu, m.val.mu),
                       ar |-> Append(acc.ar, m.val.ar),
                       ma |-> Append(acc.ma, m.val.ma)])

unpack(p, q, nb, x) ==
    UnpackLoop(p, q, nb, x, 0, [mu |-> <<>>, ar |-> <<>>, ma |-> <<>>])

\* numpy's x[a:b] = xi for a slice of n entries: xi fits when it has n
\* entries, or one entry (broadcast); anything else is a ValueError.
AssignSlice(n, xi) ==
    IF Len(xi) = n THEN Ok(xi)
    ELSE IF Len(xi) = 1 THEN Ok([k \in 1..n |-> xi[1]])
    ELSE Raised("ValueError")

\* PackMember storing the MA block ahead of the AR block.
PackMemberMaFirst(p, q, mu, ar, ma, i) ==
    AssignSlice(1 + p + q, <<mu[i + 1]>> \o ma[i + 1] \o ar[i + 1])

\* One iteration of pack's loop: xi = [mu[i]] ++ ar[i] ++ ma[i], stored in
\* the member's slice of x.
PackMember(p, q, mu, ar, ma, i) ==
    AssignSlice(1 + p + q, <<mu[i + 1]>> \o ar[i + 1] \o ma[i + 1])

\* x with block written at 0-based positions a .. a+Len(block)-1.
StoreSlice(x, a, block) ==
    [k \in DOMAIN x |->
        IF a < k /\ k <= a + Len(block) THEN block[k - a] ELSE x[k]]

RECURSIVE PackLoop(_, _, _, _, _, _, _, _)
PackLoop(p, q, nb, mu, ar, ma, i, x) ==
    IF i = nb THEN Ok(x)
    ELSE LET b == PackMember(p, q, mu, ar, ma, i)
         IN  IF b.err # "none" THEN Raised(b.err)
             ELSE PackLoop(p, q, nb, mu, ar, ma, i + 1,
                           StoreSlice(x, i * (1 + p + q), b.val))

\* x = np.zeros(num_parameters*nb), then one block per member.
pack(p, q, nb, mu, ar, ma) ==
    PackLoop(p, q, nb, mu, ar, ma, 0, [k \in 1..((1 + p + q) * nb) |-> 0])

\* Containers of the shapes the codec is meant for: nb means, nb AR vectors
\* of length p, nb MA vectors of length q.
ShapedInputs(p, q, nb) ==
    { [mu |-> m, ar |-> a, ma |-> b] :
        m \in [1..nb -> Vals],
        a \in [1..nb -> VecsOf(p)],
        b \in [1..nb -> VecsOf(q)] }

\* Containers whose AR and MA vectors need not have p and q entries (none,
\* one fewer, one more); the entries are tags naming the member and the
\* position they came from.
TaggedVec(i, base, n) == [k \in 1..n |-> 10 * i + base + k]

LooseLens(n) == {0, n, n + 1} \cup (IF n > 0 THEN {n - 1} ELSE {})

LooseInputs(p, q, nb) ==
    { [mu |-> [i \in 1..nb |-> 10 * i],
       ar |-> [i \in 1..nb |-> TaggedVec(i, 0, la[i])],
       ma |-> [i \in 1..nb |-> TaggedVec(i, 5, lm[i])]] :
        la \in [1..nb -> LooseLens(p)],
        lm \in [1..nb -> LooseLens(q)] }

\* Vectors of any length up to one past the longest well-sized one.
MaxLen == MaxBatch * (1 + 2 * MaxOrder) + 1
LooseVectors == { [k \in 1..n |-> k] : n \in 0..MaxLen }

CodecInit ==
    /\ c_p \in 0..MaxOrder
    /\ c_q \in 0..MaxOrder
    /\ c_nb \in 1..MaxBatch
    /\ c_out = <<>>
    /\ \/ /\ c_pc = "pack_call"
          /\ \E inp \in ShapedInputs(c_p, c_q, c_nb) \cup LooseInputs(c_p, c_q, c_nb) :
                /\ c_mu = inp.mu
                /\ c_ar = inp.ar
                /\ c_ma = inp.ma
          /\ c_x = <<>>
       \/ /\ c_pc = "unpack_call"
          /\ c_mu = <<>>
          /\ c_ar = <<>>
          /\ c_ma = <<>>
          /\ c_x \in LooseVectors

CodecIdle ==
    /\ c_pc = "idle"
    /\ c_p = 0 /\ c_q = 0 /\ c_nb = 0
    /\ c_mu = <<>> /\ c_ar = <<>> /\ c_ma = <<>>
    /\ c_x = <<>> /\ c_out = <<>>

\* A call of pack on the containers.
Pack ==
    /\ c_pc = "pack_call"
    /\ LET r == pack(c_p, c_q, c_nb, c_mu, c_ar, c_ma)
       IN  /\ c_pc' = IF r.err = "none" THEN "packed" ELSE "pack_raised"
           /\ c_x' = r.val
    /\ UNCHANGED <<c_p, c_q, c_nb, c_mu, c_ar, c_ma, c_out>>
    /\ UNCHANGED notCodec

\* A call of unpack on the vector (a packed one, or one given as it is).
Unpack ==
    /\ c_pc \in {"packed", "unpack_call"}
    /\ LET r == unpack(c_p, c_q, c_nb, c_x)
       IN  /\ c_pc' = IF r.err # "none" THEN "unpack_raised"
                      ELSE IF c_pc = "packed" THEN "round_trip" ELSE "unpacked"
           /\ c_out' = r.val
    /\ UNCHANGED <<c_p, c_q, c_nb, c_mu, c_ar, c_ma, c_x>>
    /\ UNCHANGED notCodec

CodecNext == Pack \/ Unpack

(***************************************************************************)
(* The optimizer driver, fit, and the process-wide floating-point error    *)
(* policy that np.seterr sets.                                             *)
(***************************************************************************)

MaxOptCalls == 2

\* A float is finite, a NaN or an infinity.
IsBad(c) == c \in {"nan", "inf"}

\* Vectors of n floats of which at most one is a NaN or an infinity.
AtMostOneBad(n) ==
    { [k \in 1..n |-> "fin"] } \cup
    { [k \in 1..n |-> IF k = j THEN c ELSE "fin"] :
        j \in 1..n, c \in {"nan", "inf"} }

\* np.tile(v, nb)
Tile(v, nb) == [k \in 1..(nb * Len(v)) |-> v[((k - 1) % Len(v)) + 1]]

\* The truth value Python takes of a boolean array in `not a`: an array of
\* two or more entries has none (ValueError); an empty one is false.
ArrayTruth(a) ==
    IF Len(a) >= 2 THEN Raised("ValueError")
    ELSE IF Len(a) = 0 THEN Ok(FALSE)
    ELSE Ok(a[1])

\* assert ((not is_c(ari)) and (not is_c(mai))) for c = "inf" or "nan".
AssertNeither(c, ari, mai) ==
    LET ta == ArrayTruth([k \in 1..Len(ari) |-> ari[k] = c])
        tm == ArrayTruth([k \in 1..Len(mai) |-> mai[k] = c])
    IN  IF ta.err # "none" THEN ta.err
        ELSE IF ta.val THEN "AssertionError"
        ELSE IF tm.err # "none" THEN tm.err
        ELSE IF tm.val THEN "AssertionError"
        ELSE "none"

\* The two asserts of batch_invtrans on one member's transformed vectors.
InvTransAsserts(ari, mai) ==
    LET e1 == AssertNeither("inf", ari, mai)
    IN  IF e1 # "none" THEN e1 ELSE AssertNeither("nan", ari, mai)

\* batch_invtrans on x, the statsmodels inverse transforms having returned
\* t (the AR and MA entries of every member, member after member).
RECURSIVE InvTransLoop(_, _, _, _, _)
InvTransLoop(p, q, nb, t, ib) ==
    IF ib = nb THEN "none"
    ELSE LET blk == PySlice(t, ib * (p + q), (ib + 1) * (p + q))
             e == InvTransAsserts(PySlice(blk, 0, p), PySlice(blk, p, p + q))
         IN  IF e # "none" THEN e ELSE InvTransLoop(p, q, nb, t, ib + 1)

batch_invtrans(p, q, nb, x, t) ==
    LET u == unpack(p, q, nb, x)
        e == IF u.err # "none" THEN u.err ELSE InvTransLoop(p, q, nb, t, 0)
    IN  IF e # "none" THEN Raised(e)
        ELSE pack(p, q, nb, u.val.mu,
                  [i \in 1..nb |-> PySlice(t, (i - 1) * (p + q), (i - 1) * (p + q) + p)],
                  [i \in 1..nb |-> PySlice(t, (i - 1) * (p + q) + p, i * (p + q))])

\* The same check looking for NaN alone.
X0HasNanOnly(x0) == \E k \in DOMAIN x0 : x0[k] = "nan"

\* The sanity check of x0: a NaN or an infinity anywhere.
X0HasNanOrInf(x0) == \E k \in DOMAIN x0 : IsBad(x0[k])

FitInit ==
    /\ f_pc = "call"
    /\ f_err = "none"
    /\ f_path \in {"raw", "array"}
    /\ f_p \in 0..MaxOrder
    /\ f_q \in 0..MaxOrder
    /\ f_nb \in 1..MaxBatch
    /\ f_mu0 \in AtMostOneBad(IF f_path = "raw" THEN 1 ELSE f_nb)
    /\ f_x0 = <<>>
    /\ f_seterr \in {"warn", "raise"}
    /\ f_optInvoked = FALSE
    /\ f_calls = 0
    /\ f_caller = "none"
    /\ f_gi = 0
    /\ f_sign = "+"
    /\ f_llPolicy = {}
    /\ f_transPolicy = {}
    /\ f_diffPolicy = {}

FitIdle ==
    /\ f_pc = "idle"
    /\ f_err = "none"
    /\ f_path = "raw"
    /\ f_p = 0 /\ f_q = 0 /\ f_nb = 0
    /\ f_mu0 = <<>> /\ f_x0 = <<>>
    /\ f_seterr = "warn"
    /\ f_optInvoked = FALSE
    /\ f_calls = 0
    /\ f_caller = "none"
    /\ f_gi = 0
    /\ f_sign = "+"
    /\ f_llPolicy = {} /\ f_transPolicy = {} /\ f_diffPolicy = {}

FitRaise(e) == f_pc' = "raised" /\ f_err' = e

\* fit's first statement: np.seterr(all='raise').
FitEnter ==
    /\ f_pc = "call"
    /\ f_seterr' = "raise"
    /\ f_pc' = "build_x0"
    /\ UNCHANGED <<f_err, f_path, f_p, f_q, f_nb, f_mu0, f_x0, f_optInvoked,
                   f_calls, f_caller, f_gi, f_sign,
                   f_llPolicy, f_transPolicy, f_diffPolicy>>
    /\ UNCHANGED notFit

\* x0 from raw coefficients: the statsmodels inverse transforms of the AR and
\* MA vectors (they return t, or raise under the "raise" policy), then
\* np.r_[mu0, ar0_2, ma0_2] tiled over the batch.
FitBuildRaw ==
    /\ f_pc = "build_x0"
    /\ f_path = "raw"
    /\ \/ /\ FitRaise("FloatingPointError")
          /\ f_x0' = f_x0
       \/ \E t \in AtMostOneBad(f_p + f_q) :
             /\ f_x0' = Tile(f_mu0 \o t, f_nb)
             /\ f_pc' = "check_x0"
             /\ f_err' = f_err
    /\ UNCHANGED <<f_path, f_p, f_q, f_nb, f_mu0, f_seterr, f_optInvoked,
                   f_calls, f_caller, f_gi, f_sign,
                   f_llPolicy, f_transPolicy, f_diffPolicy>>
    /\ UNCHANGED notFit

\* x0 from arrays: pack, then batch_invtrans.
FitBuildArray ==
    /\ f_pc = "build_x0"
    /\ f_path = "array"
    /\ \/ /\ FitRaise("FloatingPointError")
          /\ f_x0' = f_x0
       \/ \E t \in AtMostOneBad(f_nb * (f_p + f_q)) :
             LET x == pack(f_p, f_q, f_nb, f_mu0,
                           [i \in 1..f_nb |-> [k \in 1..f_p |-> "fin"]],
                           [i \in 1..f_nb |-> [k \in 1..f_q |-> "fin"]])
                 r == batch_invtrans(f_p, f_q, f_nb, x.val, t)
             IN  IF r.err # "none"
                 THEN FitRaise(r.err) /\ f_x0' = f_x0
                 ELSE f_x0' = r.val /\ f_pc' = "check_x0" /\ f_err' = f_err
    /\ UNCHANGED <<f_path, f_p, f_q, f_nb, f_mu0, f_seterr, f_optInvoked,
                   f_calls, f_caller, f_gi, f_sign,
                   f_llPolicy, f_transPolicy, f_diffPolicy>>
    /\ UNCHANGED notFit

\* The sanity check of x0 and, when it passes, the call of the optimizer.
FitCheckX0 ==
    /\ f_pc = "check_x0"
    /\ IF X0HasNanOrInf(f_x0)
       THEN FitRaise("FloatingPointError") /\ f_optInvoked' = f_optInvoked
       ELSE f_pc' = "optimizing" /\ f_optInvoked' = TRUE /\ f_err' = f_err
    /\ UNCHANGED <<f_path, f_p, f_q, f_nb, f_mu0, f_x0, f_seterr,
                   f_calls, f_caller, f_gi, f_sign,
                   f_llPolicy, f_transPolicy, f_diffPolicy>>
    /\ UNCHANGED notFit

fitLoopKeep == <<f_err, f_path, f_p, f_q, f_nb, f_mu0, f_x0, f_optInvoked>>

\* The optimizer calls the objective f: ll_f(..., trans=True).
OptCallF ==
    /\ f_pc = "optimizing"
    /\ f_calls < MaxOptCalls
    /\ f_calls' = f_calls + 1
    /\ f_caller' = "f"
    /\ f_pc' = "ll_f_trans"
    /\ UNCHANGED <<fitLoopKeep, f_seterr, f_gi, f_sign,
                   f_llPolicy, f_transPolicy, f_diffPolicy>>
    /\ UNCHANGED notFit

\* The optimizer calls the gradient gf: ll_gf(..., trans=True).
OptCallGf ==
    /\ f_pc = "optimizing"
    /\ f_calls < MaxOptCalls
    /\ f_calls' = f_calls + 1
    /\ f_caller' = "gf"
    /\ f_gi' = 0
    /\ f_pc' = "gf_loop"
    /\ UNCHANGED <<fitLoopKeep, f_seterr, f_sign,
                   f_llPolicy, f_transPolicy, f_diffPolicy>>
    /\ UNCHANGED notFit

\* ll_gf's loop head: the next parameter index, or the return of grad.
GfLoop ==
    /\ f_pc = "gf_loop"
    /\ IF f_gi < 1 + f_p + f_q
       THEN f_pc' = "ll_f_trans" /\ f_sign' = "+"
       ELSE f_pc' = "optimizing" /\ f_sign' = f_sign
    /\ UNCHANGED <<fitLoopKeep, f_seterr, f_calls, f_caller, f_gi,
                   f_llPolicy, f_transPolicy, f_diffPolicy>>
    /\ UNCHANGED notFit

\* The policy batch_trans leaves behind: its last np.seterr.
PolicyAfterTrans == "warn"

\* The policy batch_trans sets before the statsmodels transforms run.
PolicyDuringTrans == "raise"

\* ll_f's batch_trans: np.seterr(all='raise'), the transforms of every
\* member (which may raise under that policy), np.seterr(all='warn'), pack.
LlfBatchTrans ==
    /\ f_pc = "ll_f_trans"
    /\ f_transPolicy' = f_transPolicy \cup {PolicyDuringTrans}
    /\ \/ /\ FitRaise("FloatingPointError")
          /\ f_seterr' = PolicyDuringTrans
       \/ /\ f_seterr' = PolicyAfterTrans
          /\ f_pc' = "ll_f_loglike"
          /\ f_err' = f_err
    /\ UNCHANGED <<f_path, f_p, f_q, f_nb, f_mu0, f_x0, f_optInvoked,
                   f_calls, f_caller, f_gi, f_sign, f_llPolicy, f_diffPolicy>>
    /\ UNCHANGED notFit

\* ll_f's unpack and loglike: the likelihood evaluation, under the policy in
\* force; then back to f's caller or to ll_gf.
LlfLoglike ==
    /\ f_pc = "ll_f_loglike"
    /\ f_llPolicy' = f_llPolicy \cup {f_seterr}
    /\ IF f_caller = "f" THEN f_pc' = "optimizing" /\ f_sign' = f_sign
       ELSE IF f_sign = "+" THEN f_pc' = "ll_f_trans" /\ f_sign' = "-"
       ELSE f_pc' = "gf_diff" /\ f_sign' = f_sign
    /\ UNCHANGED <<fitLoopKeep, f_seterr, f_calls, f_caller, f_gi,
                   f_transPolicy, f_diffPolicy>>
    /\ UNCHANGED notFit

\* ll_gf: np.seterr(all='raise'), the central difference, the scatter.
GfDiff ==
    /\ f_pc = "gf_diff"
    /\ f_seterr' = "raise"
    /\ f_diffPolicy' = f_diffPolicy \cup {f_seterr'}
    /\ f_gi' = f_gi + 1
    /\ f_pc' = "gf_loop"
    /\ UNCHANGED <<fitLoopKeep, f_calls, f_caller, f_sign,
                   f_llPolicy, f_transPolicy>>
    /\ UNCHANGED notFit

\* The optimizer returns; fit applies batch_trans to its result, unpacks and
\* returns the fitted model.
FitFinish ==
    /\ f_pc = "optimizing"
    /\ f_transPolicy' = f_transPolicy \cup {PolicyDuringTrans}
    /\ \/ /\ FitRaise("FloatingPointError")
          /\ f_seterr' = PolicyDuringTrans
       \/ /\ f_seterr' = PolicyAfterTrans
          /\ f_pc' = "returned"
          /\ f_err' = f_err
    /\ UNCHANGED <<f_path, f_p, f_q, f_nb, f_mu0, f_x0, f_optInvoked,
                   f_calls, f_caller, f_gi, f_sign, f_llPolicy, f_diffPolicy>>
    /\ UNCHANGED notFit

FitNext ==
    \/ FitEnter \/ FitBuildRaw \/ FitBuildArray \/ FitCheckX0
    \/ OptCallF \/ OptCallGf \/ GfLoop \/ LlfBatchTrans \/ LlfLoglike
    \/ GfDiff \/ FitFinish

(***************************************************************************)
(* The likelihood evaluator, run_kalman, and the operations that call it.  *)
(***************************************************************************)
MaxD == 2

KalmanOps == {"loglike", "aic", "bic", "predict_in_sample", "forecast"}

\* The same check asking only that some member agrees with the first.
assert_same_d_any(b_order) ==
    \E i \in 1..Len(b_order) : b_order[i][2] = b_order[1][2]

\* assert (np.array(b_d) == b_d[0]).all()
assert_same_d(b_order) ==
    \A i \in 1..Len(b_order) : b_order[i][2] = b_order[1][2]

\* run_kalman after init_batched_kalman_matrices: the assert, then the branch
\* on d of the first member. The value is the input handed to the kernel.
run_kalman(order) ==
    IF ~assert_same_d(order) THEN Raised("AssertionError")
    ELSE LET d == order[1][2]
         IN  IF d = 0 THEN Ok("y")
             ELSE IF d = 1 THEN Ok("y_diff_centered")
             ELSE Raised("NotImplementedError")

\* What each operation returns once run_kalman has returned.
ResultOf(op) ==
    CASE op = "loglike" -> "ll_b"
      [] op = "aic" -> "ic"
      [] op = "bic" -> "ic"
      [] op = "predict_in_sample" -> "y_p"
      [] op = "forecast" -> "y_fc_b"

KalInit ==
    /\ k_pc = "call"
    /\ k_op \in KalmanOps
    /\ \E nb \in 1..MaxBatch :
          k_order \in [1..nb -> Vals \X (0..MaxD) \X Vals]
    /\ k_kfilter = 0
    /\ k_err = "none"
    /\ k_out = "none"

KalIdle ==
    /\ k_pc = "idle"
    /\ k_op = "none"
    /\ k_order = <<>>
    /\ k_kfilter = 0
    /\ k_err = "none"
    /\ k_out = "none"

\* The operation's call of run_kalman(model).
RunKalman ==
    /\ k_pc = "call"
    /\ LET r == run_kalman(k_order)
       IN  IF r.err # "none"
           THEN k_pc' = "raised" /\ k_err' = r.err /\ k_kfilter' = k_kfilter
           ELSE k_pc' = "kalman_done" /\ k_err' = k_err
                /\ k_kfilter' = k_kfilter + 1
    /\ UNCHANGED <<k_op, k_order, k_out>>
    /\ UNCHANGED notKal

\* The rest of the operation. predict_in_sample asserts the same d again and
\* branches on d again; the others use the kernel's outputs as they are.
OpReturn ==
    /\ k_pc = "kalman_done"
    /\ IF k_op = "predict_in_sample" /\ ~assert_same_d(k_order)
       THEN k_pc' = "raised" /\ k_err' = "AssertionError" /\ k_out' = k_out
       ELSE IF k_op = "predict_in_sample" /\ k_order[1][2] \notin {0, 1}
       THEN k_pc' = "raised" /\ k_err' = "NotImplementedError" /\ k_out' = k_out
       ELSE k_pc' = "returned" /\ k_err' = k_err /\ k_out' = ResultOf(k_op)
    /\ UNCHANGED <<k_op, k_order, k_kfilter>>
    /\ UNCHANGED notKal

KalNext == RunKalman \/ OpReturn

(***************************************************************************)
(* The order grid search.                                                  *)
(***************************************************************************)
GridMaxP == 2
GridMaxQ == 2

\* The batch searched has two members.
GridMembers == {1, 2}

\* The information criteria a fitted member can score.
Scores == {1, 2}

\* np.finfo(np.float64).max/2, above every score.
BestIcInit == 1000

\* The model fit returns for order (p, d, q): its entries are tags naming
\* the order and the member they were fitted for.
FittedModel(p, q) ==
    [i \in GridMembers |->
        [mu |-> 100 * p + 10 * q + i,
         ar |-> [k \in 1..p |-> 100 * p + 10 * q + i],
         ma |-> [k \in 1..q |-> 100 * p + 10 * q + i]]]

\* UpdateMember replacing on a tie as well.
UpdateMemberOnTie(best, best_ic, i, ic_i, order, b_model) ==
    IF ic_i <= best_ic[i]
    THEN [entry |-> [order |-> order, mu |-> b_model[i].mu,
                     ar |-> b_model[i].ar, ma |-> b_model[i].ma],
          ic |-> ic_i]
    ELSE [entry |-> best[i], ic |-> best_ic[i]]

\* The loop over enumerate(ic) for one member: replace when strictly lower.
UpdateMember(best, best_ic, i, ic_i, order, b_model) ==
    IF ic_i < best_ic[i]
    THEN [entry |-> [order |-> order, mu |-> b_model[i].mu,
                     ar |-> b_model[i].ar, ma |-> b_model[i].ma],
          ic |-> ic_i]
    ELSE [entry |-> best[i], ic |-> best_ic[i]]

GridInit ==
    /\ g_pc = "loop"
    /\ g_method \in {"aic", "bic", "hqic"}
    /\ g_max_p \in 0..GridMaxP
    /\ g_max_q \in 0..GridMaxQ
    /\ g_d \in {0, 1}
    /\ g_p = 0
    /\ g_q = 0
    /\ g_fits = 0
    /\ g_b_model = <<>>
    /\ g_best_ic = [i \in GridMembers |-> BestIcInit]
    /\ g_best = [i \in GridMembers |->
                    [order |-> <<>>, mu |-> 0, ar |-> <<>>, ma |-> <<>>]]
    /\ g_hist = <<>>
    /\ g_err = "none"

GridIdle ==
    /\ g_pc = "idle"
    /\ g_method = "aic"
    /\ g_max_p = 0 /\ g_max_q = 0 /\ g_d = 0
    /\ g_p = 0 /\ g_q = 0
    /\ g_fits = 0
    /\ g_b_model = <<>> /\ g_best_ic = <<>> /\ g_best = <<>> /\ g_hist = <<>>
    /\ g_err = "none"

gridArgs == <<g_method, g_max_p, g_max_q, g_d>>

\* The p = q = 0 order is skipped.
GridSkip ==
    /\ g_pc = "loop"
    /\ g_p < g_max_p /\ g_q < g_max_q
    /\ g_p = 0 /\ g_q = 0
    /\ g_q' = g_q + 1
    /\ UNCHANGED <<gridArgs, g_pc, g_p, g_fits, g_b_model, g_best_ic, g_best,
                   g_hist, g_err>>
    /\ UNCHANGED notGrid

\* fit(y_b, (p, d, q), 0.0, arparams, maparams): a fitted model, or the
\* exception fit raised.
GridFit ==
    /\ g_pc = "loop"
    /\ g_p < g_max_p /\ g_q < g_max_q
    /\ ~(g_p = 0 /\ g_q = 0)
    /\ \/ /\ g_pc' = "score"
          /\ g_fits' = g_fits + 1
          /\ g_b_model' = FittedModel(g_p, g_q)
          /\ g_err' = g_err
       \/ /\ g_pc' = "raised"
          /\ g_err' = "FloatingPointError"
          /\ UNCHANGED <<g_fits, g_b_model>>
    /\ UNCHANGED <<gridArgs, g_p, g_q, g_best_ic, g_best, g_hist>>
    /\ UNCHANGED notGrid

\* The criterion by method (or the exception for another method), then the
\* loop over the members replacing the better ones, then the next q.
GridScore ==
    /\ g_pc = "score"
    /\ IF g_method \in {"aic", "bic"}
       THEN \E ic \in [GridMembers -> Scores] :
               LET u == [i \in GridMembers |->
                           UpdateMember(g_best, g_best_ic, i, ic[i],
                                        <<g_p, g_d, g_q>>, g_b_model)]
               IN  /\ g_best' = [i \in GridMembers |-> u[i].entry]
                   /\ g_best_ic' = [i \in GridMembers |-> u[i].ic]
                   /\ g_hist' = Append(g_hist, [p |-> g_p, q |-> g_q, ic |-> ic])
                   /\ g_q' = g_q + 1
                   /\ g_pc' = "loop"
                   /\ g_err' = g_err
       ELSE /\ g_pc' = "raised"
            /\ g_err' = "NotImplementedError"
            /\ UNCHANGED <<g_best, g_best_ic, g_hist, g_q>>
    /\ UNCHANGED <<gridArgs, g_p, g_fits, g_b_model>>
    /\ UNCHANGED notGrid

\* The inner loop over q is exhausted: the next p.
GridNextP ==
    /\ g_pc = "loop"
    /\ g_p < g_max_p /\ g_q >= g_max_q
    /\ g_p' = g_p + 1
    /\ g_q' = 0
    /\ UNCHANGED <<gridArgs, g_pc, g_fits, g_b_model, g_best_ic, g_best,
                   g_hist, g_err>>
    /\ UNCHANGED notGrid

\* The outer loop is exhausted: return (best_model, best_ic).
GridReturn ==
    /\ g_pc = "loop"
    /\ g_p >= g_max_p
    /\ g_pc' = "returned"
    /\ UNCHANGED <<gridArgs, g_p, g_q, g_fits, g_b_model, g_best_ic, g_best,
                   g_hist, g_err>>
    /\ UNCHANGED notGrid

GridNext == GridSkip \/ GridFit \/ GridScore \/ GridNextP \/ GridReturn

(***************************************************************************)
(* Differencing and undifferencing.                                        *)
(***************************************************************************)
MaxSeries == 3

\* np.diff(y, axis=0) of a batched series: row t+1 minus row t.
NpDiffRows(y) ==
    [t \in 1..(Len(y) - 1) |-> [i \in DOMAIN y[t] |-> y[t + 1][i] - y[t][i]]]

\* np.diff of one series.
NpDiff(v) == [t \in 1..(Len(v) - 1) |-> v[t + 1] - v[t]]

\* diffAndCenter: B0[i] = mu[i], and B0 is subtracted from every row of the
\* differenced series.
diffAndCenter(y, num_batches, mu) ==
    LET y_diff == NpDiffRows(y)
        B0 == [i \in 1..num_batches |-> mu[i]]
    IN  [t \in 1..Len(y_diff) |->
            [i \in 1..num_batches |-> y_diff[t][i] - B0[i]]]

\* np.cumsum
RECURSIVE CumSumFrom(_, _, _)
CumSumFrom(v, k, acc) ==
    IF k > Len(v) THEN <<>>
    ELSE <<acc + v[k]>> \o CumSumFrom(v, k + 1, acc + v[k])

NpCumSum(v) == CumSumFrom(v, 1, 0)

\* undifference with the seed left out of the result.
undifferenceDropSeed(x, x0) == Tail(NpCumSum(<<x0>> \o x))

\* undifference: np.cumsum(np.append(x0, x)).
undifference(x, x0) == NpCumSum(<<x0>> \o x)

\* Column i of a batched series.
Column(y, i) == [t \in 1..Len(y) |-> y[t][i]]

DiffInit ==
    /\ d_pc = "start"
    /\ d_nb \in 1..MaxBatch
    /\ \E n \in 2..MaxSeries : d_y \in [1..n -> [1..d_nb -> Vals]]
    /\ d_mu \in [1..d_nb -> Vals]
    /\ d_diff = <<>>
    /\ d_member = 0
    /\ d_skip = 0
    /\ d_out = <<>>

DiffIdle ==
    /\ d_pc = "idle"
    /\ d_nb = 0
    /\ d_y = <<>> /\ d_mu = <<>> /\ d_diff = <<>>
    /\ d_member = 0 /\ d_skip = 0
    /\ d_out = <<>>

\* A call of diffAndCenter on the batch.
DiffAndCenter ==
    /\ d_pc = "start"
    /\ d_diff' = diffAndCenter(d_y, d_nb, d_mu)
    /\ d_pc' = "differenced"
    /\ UNCHANGED <<d_nb, d_y, d_mu, d_member, d_skip, d_out>>
    /\ UNCHANGED notDiff

\* A call of undifference on one member's differences (all of them, or all
\* but the first) with the member's first observation as the seed.
Undifference ==
    /\ d_pc = "differenced"
    /\ \E i \in 1..d_nb, skip \in {0, 1} :
          /\ d_member' = i
          /\ d_skip' = skip
          /\ d_out' = undifference(
                          PySlice(Column(d_diff, i), skip, Len(d_diff)),
                          d_y[1][i])
    /\ d_pc' = "undifferenced"
    /\ UNCHANGED <<d_nb, d_y, d_mu, d_diff>>
    /\ UNCHANGED notDiff

DiffNext == DiffAndCenter \/ Undifference

(***************************************************************************)
(* The forecaster: fc_single and the body of forecast's loop over members. *)
(***************************************************************************)
MaxSteps == 5

Max(a, b) == IF a > b THEN a ELSE b

\* v[-n:] for n > 0: the last n entries (all of them when there are fewer).
LastN(v, n) == PySlice(v, Max(Len(v) - n, 0), Len(v))

\* ar_params.sum()
RECURSIVE SumOf(_)
SumOf(v) == IF v = <<>> THEN 0 ELSE Head(v) + SumOf(Tail(v))

\* np.dot(a, b) of two vectors of the same length.
RECURSIVE Dot(_, _)
Dot(a, b) == IF a = <<>> THEN 0 ELSE Head(a) * Head(b) + Dot(Tail(a), Tail(b))

\* FcValue with the mean added as it stands.
FcValuePlainMu(i, p, q, mu, ar, ma, ybuf, vsbuf) ==
    mu
    + (IF p > 0 THEN Dot(ar, PySlice(ybuf, i, i + p)) ELSE 0)
    + (IF q > 0 /\ i < q THEN Dot(ma, PySlice(vsbuf, i, i + q)) ELSE 0)

\* fcast[i] for loop index i (0-based), from the buffers as they stand.
FcValue(i, p, q, mu, ar, ma, ybuf, vsbuf) ==
    mu * (1 - SumOf(ar))
    + (IF p > 0 THEN Dot(ar, PySlice(ybuf, i, i + p)) ELSE 0)
    + (IF q > 0 /\ i < q THEN Dot(ma, PySlice(vsbuf, i, i + q)) ELSE 0)

\* The series a member is observed on, and its innovations.
FcSeries ==
    VecsOf(MaxOrder + 2) \cup { [t \in 1..(MaxOrder + 2) |-> 5] }

FcInit ==
    /\ r_pc = "call"
    /\ r_p \in 0..MaxOrder
    /\ r_q \in 0..MaxOrder
    /\ r_d \in {0, 1}
    /\ r_num_steps \in 1..MaxSteps
    /\ r_y \in FcSeries
    /\ r_vs \in VecsOf(MaxOrder + 1)
    /\ r_mu \in {0, 1, 5}
    /\ r_ar \in VecsOf(r_p)
    /\ r_ma \in VecsOf(r_q)
    /\ r_ybuf = <<>>
    /\ r_vsbuf = <<>>
    /\ r_fcast = <<>>
    /\ r_i = 0
    /\ r_out = <<>>

FcIdle ==
    /\ r_pc = "idle"
    /\ r_p = 0 /\ r_q = 0 /\ r_d = 0
    /\ r_num_steps = 0
    /\ r_y = <<>> /\ r_vs = <<>>
    /\ r_mu = 0 /\ r_ar = <<>> /\ r_ma = <<>>
    /\ r_ybuf = <<>> /\ r_vsbuf = <<>> /\ r_fcast = <<>>
    /\ r_i = 0
    /\ r_out = <<>>

fcArgs == <<r_p, r_q, r_d, r_num_steps, r_y, r_vs, r_mu, r_ar, r_ma>>

\* forecast calls fc_single on np.diff of the member's series; fc_single
\* fills the heads of its zeroed buffers y_ and vs_.
FcSetup ==
    /\ r_pc = "call"
    /\ LET y_diff == NpDiff(r_y)
           y0 == [k \in 1..(r_p + r_num_steps) |-> 0]
           vs0 == [k \in 1..(r_q + r_num_steps) |-> 0]
       IN  /\ r_ybuf' = IF r_p > 0
                        THEN StoreSlice(y0, 0, AssignSlice(r_p, LastN(y_diff, r_p)).val)
                        ELSE y0
           /\ r_vsbuf' = IF r_q > 0
                         THEN StoreSlice(vs0, 0, AssignSlice(r_q, LastN(r_vs, r_q)).val)
                         ELSE vs0
    /\ r_fcast' = <<>>
    /\ r_i' = 0
    /\ r_pc' = "loop"
    /\ UNCHANGED <<fcArgs, r_out>>
    /\ UNCHANGED notFc

\* One iteration of fc_single's loop: fcast[i], stored in y_[i+p] when p > 0.
FcStep ==
    /\ r_pc = "loop"
    /\ r_i < r_num_steps
    /\ LET v == FcValue(r_i, r_p, r_q, r_mu, r_ar, r_ma, r_ybuf, r_vsbuf)
       IN  /\ r_fcast' = Append(r_fcast, v)
           /\ r_ybuf' = IF r_p > 0
                        THEN [r_ybuf EXCEPT ![r_i + r_p + 1] = v]
                        ELSE r_ybuf
    /\ r_i' = r_i + 1
    /\ UNCHANGED <<fcArgs, r_vsbuf, r_pc, r_out>>
    /\ UNCHANGED notFc

\* fc_single returns fcast.
FcReturn ==
    /\ r_pc = "loop"
    /\ r_i >= r_num_steps
    /\ r_pc' = "fc_done"
    /\ UNCHANGED <<fcArgs, r_ybuf, r_vsbuf, r_fcast, r_i, r_out>>
    /\ UNCHANGED notFc

\* forecast undifferences the member's forecast when d > 0 and stores it as
\* the member's column.
ForecastStore ==
    /\ r_pc = "fc_done"
    /\ r_out' = IF r_d > 0
                THEN Tail(undifference(r_fcast, r_y[Len(r_y)]))
                ELSE r_fcast
    /\ r_pc' = "returned"
    /\ UNCHANGED <<fcArgs, r_ybuf, r_vsbuf, r_fcast, r_i>>
    /\ UNCHANGED notFc

FcNext == FcSetup \/ FcStep \/ FcReturn \/ ForecastStore

(***************************************************************************)
(* The finite-difference gradient, ll_gf.                                  *)
(***************************************************************************)
MaxParams == 3

\* The log-likelihood of member b at its block of parameters: the members
\* are independent, so it reads no other block. (The evaluator is external;
\* this polynomial stands for it.)
LogLike(b, blk) ==
    LET W[k \in 0..Len(blk)] ==
            IF k = 0 THEN 0 ELSE W[k - 1] + (k + b) * blk[k] * blk[k]
    IN  W[Len(blk)] + blk[1] * blk[Len(blk)]

\* ll_f: one log-likelihood per member, from the member's block of x.
ll_f(num_batches, num_parameters, x) ==
    [b \in 1..num_batches |->
        LogLike(b, PySlice(x, (b - 1) * num_parameters, b * num_parameters))]

\* GradSlots striding by the batch size instead of the parameter count.
GradSlotsBatchStride(i, num_parameters, num_batches, n) ==
    IF num_batches = 1 THEN {i}
    ELSE { k \in 0..(n - 1) : k >= i /\ (k - i) % num_batches = 0 }

\* The slots (0-based) that grad[i::num_parameters] names, or grad[i] for a
\* batch of one.
GradSlots(i, num_parameters, num_batches, n) ==
    IF num_batches = 1 THEN {i}
    ELSE { k \in 0..(n - 1) : k >= i /\ (k - i) % num_parameters = 0 }

\* The orders in which 0 .. n-1 can be processed; ll_gf's own is ascending.
Schedules(n) ==
    { f \in [1..n -> 0..(n - 1)] : \A a, b \in 1..n : a # b => f[a] # f[b] }

GradInit ==
    /\ q_pc = "call"
    /\ q_nb \in 1..MaxBatch
    /\ q_np \in 1..MaxParams
    /\ q_h \in {1, 2}
    /\ q_x \in VecsOf(q_nb * q_np) \cup VecsOf(q_nb * q_np + 1)
    /\ q_sched \in Schedules(q_np)
    /\ q_k = 0
    /\ q_i = 0
    /\ q_fd = <<>>
    /\ q_fdph = <<>>
    /\ q_grad = <<>>
    /\ q_writes = <<>>

GradIdle ==
    /\ q_pc = "idle"
    /\ q_nb = 0 /\ q_np = 0 /\ q_h = 0
    /\ q_x = <<>> /\ q_sched = <<>>
    /\ q_k = 0 /\ q_i = 0
    /\ q_fd = <<>> /\ q_fdph = <<>> /\ q_grad = <<>> /\ q_writes = <<>>

gradArgs == <<q_nb, q_np, q_h, q_x, q_sched>>

\* fd and grad are zeroed; assert (len(x) / num_parameters) == num_batches.
GradEnter ==
    /\ q_pc = "call"
    /\ q_fd' = [k \in 1..q_np |-> 0]
    /\ q_grad' = [k \in 1..Len(q_x) |-> 0]
    /\ q_writes' = [k \in 1..Len(q_x) |-> 0]
    /\ q_pc' = IF Len(q_x) = q_nb * q_np THEN "loop" ELSE "raised"
    /\ UNCHANGED <<gradArgs, q_k, q_i, q_fdph>>
    /\ UNCHANGED notGrad

\* One iteration of the loop, for the next index i of the schedule: the
\* perturbation, the two evaluations, the central difference, the scatter.
GradIter ==
    /\ q_pc = "loop"
    /\ q_k < q_np
    /\ LET i == q_sched[q_k + 1]
           fd1 == [q_fd EXCEPT ![i + 1] = q_h]
           fdph == Tile(fd1, q_nb)
           ll_b_ph == ll_f(q_nb, q_np, [k \in DOMAIN q_x |-> q_x[k] + fdph[k]])
           ll_b_mh == ll_f(q_nb, q_np, [k \in DOMAIN q_x |-> q_x[k] - fdph[k]])
           grad_i_b == [b \in 1..q_nb |-> (ll_b_ph[b] - ll_b_mh[b]) \div (2 * q_h)]
           slots == GradSlots(i, q_np, q_nb, Len(q_grad))
           \* the position of slot k among the slots, 1-based
           rank(k) == Cardinality({j \in slots : j <= k})
       IN  /\ q_i' = i
           /\ q_fdph' = fdph
           /\ q_fd' = [fd1 EXCEPT ![i + 1] = 0]
           /\ IF Cardinality(slots) = q_nb
              THEN /\ q_grad' = [k \in DOMAIN q_grad |->
                                   IF (k - 1) \in slots THEN grad_i_b[rank(k - 1)]
                                   ELSE q_grad[k]]
                   /\ q_writes' = [k \in DOMAIN q_writes |->
                                   IF (k - 1) \in slots THEN q_writes[k] + 1
                                   ELSE q_writes[k]]
                   /\ q_pc' = q_pc
                   /\ q_k' = q_k + 1
              ELSE /\ q_pc' = "raised"
                   /\ UNCHANGED <<q_grad, q_writes, q_k>>
    /\ UNCHANGED gradArgs
    /\ UNCHANGED notGrad

\* The loop is exhausted: return grad.
GradReturn ==
    /\ q_pc = "loop"
    /\ q_k >= q_np
    /\ q_pc' = "returned"
    /\ UNCHANGED <<gradArgs, q_k, q_i, q_fd, q_fdph, q_grad, q_writes>>
    /\ UNCHANGED notGrad

GradNext == GradEnter \/ GradIter \/ GradReturn

InitCodec == CodecInit /\ FitIdle /\ KalIdle /\ GridIdle /\ DiffIdle /\ FcIdle /\ GradIdle

SpecCodec == InitCodec /\ [][CodecNext]_vars

InitFit == FitInit /\ CodecIdle /\ KalIdle /\ GridIdle /\ DiffIdle /\ FcIdle /\ GradIdle

SpecFit == InitFit /\ [][FitNext]_vars

InitKal == KalInit /\ CodecIdle /\ FitIdle /\ GridIdle /\ DiffIdle /\ FcIdle /\ GradIdle

SpecKalman == InitKal /\ [][KalNext]_vars

InitGrid == GridInit /\ CodecIdle /\ FitIdle /\ KalIdle /\ DiffIdle /\ FcIdle /\ GradIdle

SpecGrid == InitGrid /\ [][GridNext]_vars

InitDiff == DiffInit /\ CodecIdle /\ FitIdle /\ KalIdle /\ GridIdle /\ FcIdle /\ GradIdle

SpecDiff == InitDiff /\ [][DiffNext]_vars

InitFc == FcInit /\ CodecIdle /\ FitIdle /\ KalIdle /\ GridIdle /\ DiffIdle /\ GradIdle

SpecForecast == InitFc /\ [][FcNext]_vars

InitGrad == GradInit /\ CodecIdle /\ FitIdle /\ KalIdle /\ GridIdle /\ DiffIdle /\ FcIdle

SpecGrad == InitGrad /\ [][GradNext]_vars

(***************************************************************************)
(* Properties.                                                             *)
(***************************************************************************)

\* The containers have the shapes the codec is meant for.
WellShaped ==
    /\ Len(c_mu) = c_nb /\ Len(c_ar) = c_nb /\ Len(c_ma) = c_nb
    /\ \A i \in 1..c_nb : Len(c_ar[i]) = c_p /\ Len(c_ma[i]) = c_q

\* Number of entries of member i's block [mu_i, ar_i, ma_i].
BlockLen(i) == 1 + Len(c_ar[i]) + Len(c_ma[i])

RECURSIVE SumBlockLens(_)
SumBlockLens(i) == IF i = 0 THEN 0 ELSE BlockLen(i) + SumBlockLens(i - 1)

\* C1: on containers of the right shapes pack and unpack never fail, the
\* packed vector has nb*(1+p+q) entries, member i's block [mu_i, ar_i, ma_i]
\* sits at positions i*(1+p+q) .. (i+1)*(1+p+q)-1, and unpack of the packed
\* vector returns exactly (mu, ar, ma).
C1_RoundTrip ==
    WellShaped =>
        /\ c_pc \notin {"pack_raised", "unpack_raised"}
        /\ c_pc \in {"packed", "round_trip"} =>
              /\ Len(c_x) = c_nb * (1 + c_p + c_q)
              /\ \A i \in 0..(c_nb - 1) :
                    SubSeq(c_x, i * (1 + c_p + c_q) + 1, (i + 1) * (1 + c_p + c_q))
                        = <<c_mu[i + 1]>> \o c_ar[i + 1] \o c_ma[i + 1]
        /\ c_pc = "round_trip" =>
              c_out = [mu |-> c_mu, ar |-> c_ar, ma |-> c_ma]

\* C1 witness: a round trip of two members with p = 2, q = 1 and different
\* coefficients in each member.
C1_Witness ==
    /\ c_pc = "round_trip"
    /\ WellShaped
    /\ c_p = 2 /\ c_q = 1 /\ c_nb = 2
    /\ c_out = [mu |-> <<0, 1>>, ar |-> <<<<1, 2>>, <<2, 1>>>>,
                ma |-> <<<<1>>, <<0>>>>]

\* C2 as stated: unpack returns a result only for a vector of exactly
\* nb*(1+p+q) entries, and pack only for blocks that add up to nb*(1+p+q).
C2_FailsOnAnyLengthMismatch ==
    /\ c_pc \in {"unpacked", "round_trip"} =>
          Len(c_x) = c_nb * (1 + c_p + c_q)
    /\ c_pc = "packed" => SumBlockLens(c_nb) = c_nb * (1 + c_p + c_q)

\* C2 as amended: unpack fails exactly when the vector is so short that some
\* member's slice is empty, len(x) <= (nb-1)*(1+p+q); a longer vector, or a
\* shorter one that still reaches the last member, is unpacked without error.
\* pack fails exactly when some member's block has neither 1+p+q entries nor
\* a single entry (which numpy broadcasts over the member's slice).
C2_FailsOnlyOnEmptyOrMisfitBlock ==
    /\ c_pc \in {"unpacked", "round_trip", "unpack_raised"} =>
          (c_pc = "unpack_raised"
              <=> Len(c_x) <= (c_nb - 1) * (1 + c_p + c_q))
    /\ c_pc \in {"packed", "pack_raised"} =>
          (c_pc = "pack_raised"
              <=> \E i \in 1..c_nb : BlockLen(i) \notin {1 + c_p + c_q, 1})

\* C2 witness: unpack returned a result for a vector longer than
\* nb*(1+p+q).
C2_Witness ==
    /\ c_pc = "unpacked"
    /\ Len(c_x) > c_nb * (1 + c_p + c_q)
    /\ c_nb = 2
    /\ Len(c_out.mu) = 2

\* C3: once x0 holds a NaN or an infinity, fit ends with an exception: the
\* optimizer is never invoked and no model is returned; and the optimizer is
\* invoked only on an x0 that passed the check.
C3_BadX0NeverOptimized ==
    /\ (\E k \in DOMAIN f_x0 : f_x0[k] \in {"nan", "inf"}) =>
          /\ ~f_optInvoked
          /\ f_pc \in {"check_x0", "raised"}
    /\ f_pc \in {"optimizing", "ll_f_trans", "ll_f_loglike", "gf_loop",
                 "gf_diff", "returned"} => f_optInvoked

\* C3 witness: an infinite mean on the array path passes batch_invtrans and
\* is stopped by the check of x0.
C3_Witness ==
    /\ f_pc = "raised"
    /\ f_err = "FloatingPointError"
    /\ f_path = "array"
    /\ f_nb = 2
    /\ Len(f_x0) > 0
    /\ f_x0[1] = "inf"
    /\ ~f_optInvoked

\* C5 as stated: every likelihood evaluation made by f or gf, and every
\* central difference, runs under the strict ("raise") policy.
C5_LikelihoodAlwaysStrict ==
    /\ f_llPolicy \subseteq {"raise"}
    /\ f_diffPolicy \subseteq {"raise"}

\* C4: when the members' d differ, or the shared d is not 0 or 1, the
\* operation ends with an exception: batched_kfilter is never called and
\* nothing (log-likelihood, criterion, prediction, forecast) is returned.
C4_BadDNeverFiltered ==
    ((\E i \in 1..Len(k_order) : k_order[i][2] # k_order[1][2])
        \/ (Len(k_order) > 0 /\ k_order[1][2] \notin {0, 1})) =>
        /\ k_kfilter = 0
        /\ k_out = "none"
        /\ k_pc \in {"call", "raised"}
        /\ k_pc = "raised" => k_err \in {"AssertionError", "NotImplementedError"}

\* C4 witness: forecast on a model whose two members have d = 0 and d = 1
\* ended with the assertion's exception.
C4_Witness ==
    /\ k_pc = "raised"
    /\ k_op = "forecast"
    /\ k_err = "AssertionError"
    /\ Len(k_order) = 2
    /\ k_order[1][2] = 0
    /\ k_order[2][2] = 1
    /\ k_kfilter = 0

\* C6 as stated: with a method other than "aic" and "bic" grid_search never
\* returns a result and never fits a candidate order.
C6_BadMethodFailsBeforeAnyFit ==
    g_method \notin {"aic", "bic"} =>
        /\ g_pc # "returned"
        /\ g_fits = 0

\* The lowest score of member i among the orders scored so far, and the
\* first order scored that attains it.
MinScore(i) ==
    CHOOSE m \in Scores :
        /\ \E k \in 1..Len(g_hist) : g_hist[k].ic[i] = m
        /\ \A k \in 1..Len(g_hist) : g_hist[k].ic[i] >= m

FirstBest(i) ==
    CHOOSE k \in 1..Len(g_hist) :
        /\ g_hist[k].ic[i] = MinScore(i)
        /\ \A j \in 1..(k - 1) : g_hist[j].ic[i] # MinScore(i)

\* C7: with method "aic" or "bic", the k-th order scored is the k-th of
\* (p, q), p < max_p, q < max_q, in loop order without (0, 0), a search that
\* returns has scored them all, and after every order scored each member's
\* best_ic is its lowest score so far and its best_model entries are those
\* fitted for the first order attaining it, whatever the other members score.
C7_PerMemberRunningMinimum ==
    g_method \in {"aic", "bic"} =>
        /\ \A k \in 1..Len(g_hist) :
              /\ g_hist[k].p = k \div g_max_q
              /\ g_hist[k].q = k % g_max_q
              /\ g_hist[k].p < g_max_p
        /\ g_pc = "returned" =>
              Len(g_hist) = (IF g_max_p * g_max_q = 0 THEN 0
                             ELSE g_max_p * g_max_q - 1)
        /\ g_pc \in {"loop", "returned", "raised"} =>
              \A i \in GridMembers :
                 IF g_hist = <<>>
                 THEN /\ g_best_ic[i] = BestIcInit
                      /\ g_best[i].order = <<>>
                 ELSE LET c == g_hist[FirstBest(i)]
                      IN  /\ g_best_ic[i] = MinScore(i)
                          /\ g_best[i] =
                                [order |-> <<c.p, g_d, c.q>>,
                                 mu |-> 100 * c.p + 10 * c.q + i,
                                 ar |-> [n \in 1..c.p |-> 100 * c.p + 10 * c.q + i],
                                 ma |-> [n \in 1..c.q |-> 100 * c.p + 10 * c.q + i]]

\* C7 witness: a returned search over max_p = max_q = 2 in which member 1
\* keeps the first order scored, (0, d, 1), although a later one ties it,
\* and member 2 was replaced by the last order, (1, d, 1).
C7_Witness ==
    /\ g_pc = "returned"
    /\ g_method = "bic"
    /\ g_max_p = 2 /\ g_max_q = 2
    /\ Len(g_hist) = 3
    /\ g_hist[1].ic[1] = 1 /\ g_hist[2].ic[1] = 1
    /\ g_best[1].order = <<0, g_d, 1>>
    /\ g_best[2].order = <<1, g_d, 1>>
    /\ g_best_ic[2] = 1

\* C8 as stated: with a zero centering offset, undifference of the
\* differences without the first one, seeded with y[0], is the series y.
C8_TailOfDifferencesRebuildsSeries ==
    (d_pc = "undifferenced" /\ d_mu[d_member] = 0 /\ d_skip = 1) =>
        d_out = Column(d_y, d_member)

\* C8 as amended: with a zero centering offset, undifference of all the
\* differences, seeded with y[0], is the series y; undifference returns the
\* whole running sum, one entry more than it was given, the seed first.
C8_AllDifferencesRebuildSeries ==
    d_pc = "undifferenced" =>
        /\ Len(d_out) = Len(d_y) - d_skip
        /\ d_out[1] = d_y[1][d_member]
        /\ (d_mu[d_member] = 0 /\ d_skip = 0) =>
              d_out = Column(d_y, d_member)

\* C8 witness: the second member's series 1, 0, 1 rebuilt from its two
\* differences and its first observation.
C8_Witness ==
    /\ d_pc = "undifferenced"
    /\ d_member = 2
    /\ d_skip = 0
    /\ d_mu[2] = 0
    /\ Column(d_diff, 2) = <<-1, 1>>
    /\ d_out = <<1, 0, 1>>

\* The sequence the AR coefficients are applied to: the last p differenced
\* observations, then the forecasts; and the one the MA coefficients are
\* applied to: the last q innovations, then zeros.
FcArSeq == LastN(NpDiff(r_y), r_p) \o r_fcast

FcMaSeq == LastN(r_vs, r_q) \o [k \in 1..r_num_steps |-> 0]

\* C9: fc_single returns num_steps values; step i is mu*(1 - sum(ar)) plus
\* the AR coefficients on the p values before it in FcArSeq plus, only while
\* i < q, the MA coefficients on the q innovations from position i; with
\* p = q = 0 every step is mu, and forecast with d = 0, p = q = 0, mu = 5
\* and 5 steps stores 5, 5, 5, 5, 5 whatever the series.
C9_ForecastRecursion ==
    r_pc \in {"fc_done", "returned"} =>
        /\ Len(r_fcast) = r_num_steps
        /\ \A i \in 0..(r_num_steps - 1) :
              r_fcast[i + 1] =
                  r_mu * (1 - SumOf(r_ar))
                  + Dot(r_ar, SubSeq(FcArSeq, i + 1, i + r_p))
                  + (IF i < r_q THEN Dot(r_ma, SubSeq(FcMaSeq, i + 1, i + r_q))
                     ELSE 0)
        /\ (r_p = 0 /\ r_q = 0) =>
              \A i \in 1..r_num_steps : r_fcast[i] = r_mu
        /\ (r_pc = "returned" /\ r_d = 0 /\ r_p = 0 /\ r_q = 0 /\ r_mu = 5
                /\ r_num_steps = 5) => r_out = <<5, 5, 5, 5, 5>>

\* C9 witness: a forecast of 3 steps with p = 2, q = 1, mu = 1, ar = (1, 2),
\* ma = (1), in which the third step is built from the first two forecasts
\* alone.
C9_Witness ==
    /\ r_pc = "returned"
    /\ r_p = 2 /\ r_q = 1 /\ r_d = 0
    /\ r_mu = 1
    /\ r_ar = <<1, 2>>
    /\ r_ma = <<1>>
    /\ r_num_steps = 3
    /\ r_fcast[3] = -2 + r_fcast[1] + 2 * r_fcast[2]
    /\ r_fcast[1] # r_fcast[2]

\* The indices processed so far.
GradDone == { q_sched[n] : n \in 1..q_k }

\* Member b's block of x with h added to its entry i (0-based).
BlockPlus(b, i, h) ==
    [k \in 1..q_np |->
        q_x[(b - 1) * q_np + k] + (IF k = i + 1 THEN h ELSE 0)]

\* C10: on a point of num_batches*num_parameters entries, whatever the order
\* the indices are processed in: the perturbation of iteration i is h at
\* position i of every member's block and 0 elsewhere, and fd is zero again
\* afterwards; slot b*num_parameters + i has been written once if i has been
\* processed and never otherwise, so every slot is written exactly once by
\* the end; grad has the length of x; and a written slot holds member b's
\* central difference in parameter i, which does not depend on the order.
C10_GradientScatter ==
    /\ (q_pc = "raised") => Len(q_x) # q_nb * q_np
    /\ q_pc \in {"loop", "returned"} =>
        /\ Len(q_grad) = Len(q_x)
        /\ \A k \in 1..q_np : q_fd[k] = 0
        /\ q_k > 0 =>
              /\ Len(q_fdph) = Len(q_x)
              /\ \A b \in 0..(q_nb - 1), j \in 0..(q_np - 1) :
                    q_fdph[b * q_np + j + 1] = (IF j = q_i THEN q_h ELSE 0)
        /\ \A b \in 0..(q_nb - 1), j \in 0..(q_np - 1) :
              /\ q_writes[b * q_np + j + 1] = (IF j \in GradDone THEN 1 ELSE 0)
              /\ j \in GradDone =>
                    q_grad[b * q_np + j + 1] =
                        (LogLike(b + 1, BlockPlus(b + 1, j, q_h))
                           - LogLike(b + 1, BlockPlus(b + 1, j, 0 - q_h)))
                        \div (2 * q_h)
        /\ q_pc = "returned" => GradDone = 0..(q_np - 1)

\* C10 witness: a gradient of two members and three parameters returned
\* after the indices were processed in the order 2, 0, 1.
C10_Witness ==
    /\ q_pc = "returned"
    /\ q_nb = 2 /\ q_np = 3
    /\ q_sched = <<2, 0, 1>>
    /\ q_x = <<1, 2, 3, 4, 5, 6>>
    /\ q_grad[1] # q_grad[4]
    /\ \A k \in 1..6 : q_writes[k] = 1

=============================================================================
